---- MODULE Spec2Model ----
(***************************************************************************)
(* A model of the ELF64 ".text" disassembler: src/main.cpp (header print,  *)
(* section lookup, bounds check, slice, linear decode with 64-bit register *)
(* names) and src/unnamed/part_000 (the same decode loop with 32-bit       *)
(* register names and the extra "ret" pattern).                            *)
(*                                                                         *)
(* Bytes are naturals 0..255.  Unsigned 32- and 64-bit values are kept as  *)
(* little-endian sequences of 16-bit limbs (2 resp. 4 limbs), so that the  *)
(* arithmetic keeps the width the program has.                             *)
(***************************************************************************)
EXTENDS Integers, Sequences, FiniteSets, TLC

VARIABLES
    code,        \* the byte vector handed to disassemble
    variant,     \* "r64" (src/main.cpp) or "r32" (src/unnamed/part_000)
    baseAddress, \* disassemble's baseAddress argument
    i,           \* disassemble's cursor (size_t i)
    out,         \* completed output lines of the current invocation
    pending,     \* text written to stdout after the last end of line
    derr,        \* "none" or "TruncatedOperand" (the "Unexpected end of code" return)
    oob,         \* TRUE once a byte at an index >= the vector's size was read
    crashed,     \* TRUE when an out-of-range read aborted the process
    dpc,         \* position of the decoder: "idle", "loop", "returned"
    run,         \* number of the current disassemble invocation (1 or 2)
    first,       \* what the first invocation produced, kept for comparison
    data,        \* main's vector `code`: the whole file
    ppc,         \* position of main: "header", "locate", "check", "slice", "decode", "exit", "undefined"
    hdr,         \* the header fields printELFHeader printed: <<>> or <<fields>>
    errs,        \* the error diagnostics written so far
    found,       \* findTextSection's return value
    textSectionOffset, \* main's uint64_t textSectionOffset
    textSize,    \* main's uint64_t textSize
    sliced,      \* TRUE once the vector textSection has been constructed
    exitCode     \* main's return value, "none" while running

decVars == <<code, variant, baseAddress, i, out, pending, derr, oob, crashed, dpc, run, first>>

pipeVars == <<data, ppc, hdr, errs, found, textSectionOffset, textSize, sliced, exitCode>>

vars == <<decVars, pipeVars>>

----------------------------------------------------------------------------
(* Bounds of the model *)

\* longest byte vector given to the stand-alone decoder
MaxLen == 5

\* byte values the decoder inputs are drawn from: a small byte (two-digit
\* padding), nop, the first and the last mov opcode, ret
CodeBytes == {1, 144, 184, 191, 195}

\* values a read past the end of the vector may yield
OobBytes == {0, 255}

BaseAddresses == {0, 16}

----------------------------------------------------------------------------
(* Formatting, as the stream manipulators do it *)

HexDigit(d) == SubSeq("0123456789abcdef", d + 1, d + 1)

RECURSIVE HexStr(_)
\* operator<< of an unsigned value under std::hex: no leading zeros
HexStr(n) == IF n < 16 THEN HexDigit(n) ELSE HexStr(n \div 16) \o HexDigit(n % 16)

RECURSIVE PadLeft(_, _)
\* std::setw(w) with std::setfill('0'): pads on the left, never truncates
PadLeft(s, w) == IF Len(s) >= w THEN s ELSE PadLeft("0" \o s, w)

\* std::hex of a 32-bit value held as <<low 16 bits, high 16 bits>>
HexU32(v) == IF v[2] = 0 THEN HexStr(v[1]) ELSE HexStr(v[2]) \o PadLeft(HexStr(v[1]), 4)

----------------------------------------------------------------------------
(* The decoder *)

reg_names64 == <<"rax", "rcx", "rdx", "rbx", "rsp", "rbp", "rsi", "rdi">>
reg_names32 == <<"eax", "ecx", "edx", "ebx", "esp", "ebp", "esi", "edi">>

reg_names(v) == IF v = "r64" THEN reg_names64 ELSE reg_names32

\* code[index] of the C++ vector (0-based); past the end the value is `wild`
ByteAt(c, index, wild) == IF index < Len(c) THEN c[index + 1] ELSE wild

\* read32 with the bytes taken most significant first
read32_msb_first(c, index, wild) ==
    << ByteAt(c, index + 3, wild) + 256 * ByteAt(c, index + 2, wild),
       ByteAt(c, index + 1, wild) + 256 * ByteAt(c, index, wild) >>

\* read32: four bytes from index, least significant first
read32(c, index, wild) ==
    << ByteAt(c, index, wild) + 256 * ByteAt(c, index + 1, wild),
       ByteAt(c, index + 2, wild) + 256 * ByteAt(c, index + 3, wild) >>

\* the address prefix written at the top of every iteration
AddrText(base, at) == PadLeft(HexStr(base + at), 4) \o ": "

IsMov(opcode) == opcode >= 184 /\ opcode <= 191

\* the guard of the "Unexpected end of code" return
Truncated(c, at) == at + 4 > Len(c)

Record(addr, mn, op, w, txt) ==
    [address |-> addr, mnemonic |-> mn, operand |-> op, byteWidth |-> w, text |-> txt]

MovRecord(c, at, base, v, wild) ==
    LET imm == read32(c, at + 1, wild)
        opnd == reg_names(v)[c[at + 1] - 184 + 1] \o ", 0x" \o HexU32(imm)
    IN  Record(base + at, "mov", opnd, 5, AddrText(base, at) \o "mov " \o opnd)

NopRecord(at, base) == Record(base + at, "nop", "", 1, AddrText(base, at) \o "nop")

RetRecord(at, base) == Record(base + at, "ret", "", 1, AddrText(base, at) \o "ret")

DbRecord(c, at, base) ==
    LET opnd == "0x" \o PadLeft(HexStr(c[at + 1]), 2)
    IN  Record(base + at, "db", opnd, 1, AddrText(base, at) \o "db " \o opnd)

\* the bytes of the vector are never written
Keep == UNCHANGED <<code, variant, baseAddress, run, first, data, ppc, hdr, found,
                    textSectionOffset, textSize, sliced, exitCode>>

\* 0xB8..0xBF with too few bytes left: the prefix is already on stdout, the
\* diagnostic goes to stderr and the function returns
DisassembleTruncated ==
    /\ dpc = "loop" /\ i < Len(code)
    /\ IsMov(code[i + 1])
    /\ Truncated(code, i)
    /\ pending' = AddrText(baseAddress, i)
    /\ derr' = "TruncatedOperand"
    /\ errs' = errs \cup {"TruncatedOperand"}
    /\ dpc' = "returned"
    /\ UNCHANGED <<i, out, oob, crashed>>
    /\ Keep

\* 0xB8..0xBF, operand read by read32 from i+1 .. i+4
DisassembleMov ==
    /\ dpc = "loop" /\ i < Len(code)
    /\ IsMov(code[i + 1])
    /\ ~Truncated(code, i)
    /\ IF i + 4 < Len(code)
       THEN /\ out' = Append(out, MovRecord(code, i, baseAddress, variant, 0))
            /\ i' = i + 5
            /\ UNCHANGED <<oob, crashed, dpc, pending>>
       ELSE \* code[i+4] is one past the end: undefined behaviour
            /\ oob' = TRUE
            /\ \/ \E wild \in OobBytes :
                     /\ out' = Append(out, MovRecord(code, i, baseAddress, variant, wild))
                     /\ i' = i + 5
                     /\ UNCHANGED <<crashed, dpc, pending>>
               \/ /\ crashed' = TRUE
                  /\ dpc' = "returned"
                  /\ pending' = AddrText(baseAddress, i)
                  /\ UNCHANGED <<out, i>>
    /\ UNCHANGED <<derr, errs>>
    /\ Keep

\* 0xC3, recognised by the 32-bit-name decoder only
DisassembleRet ==
    /\ dpc = "loop" /\ i < Len(code)
    /\ ~IsMov(code[i + 1])
    /\ variant = "r32" /\ code[i + 1] = 195
    /\ out' = Append(out, RetRecord(i, baseAddress))
    /\ i' = i + 1
    /\ UNCHANGED <<pending, derr, errs, oob, crashed, dpc>>
    /\ Keep

DisassembleNop ==
    /\ dpc = "loop" /\ i < Len(code)
    /\ ~IsMov(code[i + 1])
    /\ ~(variant = "r32" /\ code[i + 1] = 195)
    /\ code[i + 1] = 144
    /\ out' = Append(out, NopRecord(i, baseAddress))
    /\ i' = i + 1
    /\ UNCHANGED <<pending, derr, errs, oob, crashed, dpc>>
    /\ Keep

DisassembleDb ==
    /\ dpc = "loop" /\ i < Len(code)
    /\ ~IsMov(code[i + 1])
    /\ ~(variant = "r32" /\ code[i + 1] = 195)
    /\ code[i + 1] # 144
    /\ out' = Append(out, DbRecord(code, i, baseAddress))
    /\ i' = i + 1
    /\ UNCHANGED <<pending, derr, errs, oob, crashed, dpc>>
    /\ Keep

\* while (i < code.size()) is false: the function returns
DisassembleEnd ==
    /\ dpc = "loop" /\ ~(i < Len(code))
    /\ dpc' = "returned"
    /\ UNCHANGED <<i, out, pending, derr, errs, oob, crashed>>
    /\ Keep

Outcome == [out |-> out, pending |-> pending, derr |-> derr, crashed |-> crashed]

\* a second call of disassemble on the same vector
DisassembleAgain ==
    /\ ppc = "none"
    /\ dpc = "returned" /\ run = 1 /\ ~crashed
    /\ first' = Outcome
    /\ run' = 2
    /\ i' = 0 /\ out' = <<>> /\ pending' = "" /\ derr' = "none"
    /\ dpc' = "loop"
    /\ UNCHANGED <<code, variant, baseAddress, oob, crashed, errs>>
    /\ UNCHANGED pipeVars

RECURSIVE SeqsUpTo(_, _)
SeqsUpTo(S, n) ==
    IF n = 0 THEN {<<>>}
    ELSE LET shorter == SeqsUpTo(S, n - 1)
         IN  shorter \cup {Append(s, b) : s \in {t \in shorter : Len(t) = n - 1}, b \in S}

----------------------------------------------------------------------------
(* Unsigned 64-bit values: <<bits 0-15, bits 16-31, bits 32-47, bits 48-63>> *)

\* 2^16, the weight of one limb
Limb == 256 * 256

U64(n) == <<n % Limb, n \div Limb, 0, 0>>

Zero64 == <<0, 0, 0, 0>>

Max64 == <<Limb - 1, Limb - 1, Limb - 1, Limb - 1>>

\* uint64_t addition: the carry out of bit 63 is dropped
Add64(a, b) ==
    LET s1 == a[1] + b[1]
        s2 == a[2] + b[2] + s1 \div Limb
        s3 == a[3] + b[3] + s2 \div Limb
        s4 == a[4] + b[4] + s3 \div Limb
    IN  <<s1 % Limb, s2 % Limb, s3 % Limb, s4 % Limb>>

\* the carry that Add64 drops: TRUE when a + b >= 2^64
Carry64(a, b) ==
    LET s1 == a[1] + b[1]
        s2 == a[2] + b[2] + s1 \div Limb
        s3 == a[3] + b[3] + s2 \div Limb
    IN  a[4] + b[4] + s3 \div Limb >= Limb

\* a > n for a 64-bit a and a size n below 2^31
Gt64(a, n) == a[3] # 0 \/ a[4] # 0 \/ a[2] * Limb + a[1] > n

\* the value of a, when it is below 2^31
Small64(a) == a[3] = 0 /\ a[4] = 0 /\ a[2] < Limb \div 2

Val64(a) == a[2] * Limb + a[1]

----------------------------------------------------------------------------
(* The packed structures: field offsets and sizes *)

EI_CLASS == 4
EI_DATA == 5
EI_VERSION == 6
EI_OSABI == 7
OffType == 16
OffMachine == 18
OffEntry == 24
OffShoff == 40
OffShentsize == 58
OffShnum == 60
OffShstrndx == 62
SizeofEhdr32 == 52
SizeofEhdr64 == 64
SizeofShdr == 64
OffShName == 0
OffShOffset == 24
OffShSize == 32

ELFMAG == <<127, 69, 76, 70>>

\* the bytes [at, at + n) all lie inside the vector d; at is 64-bit
Readable(d, at, n) == Small64(at) /\ Val64(at) + n <= Len(d)

\* little-endian loads through the reinterpret_cast pointers (index is in range)
Load16(d, at) == d[at + 1] + 256 * d[at + 2]
Load32(d, at) == <<Load16(d, at), Load16(d, at + 2), 0, 0>>
Load64(d, at) == <<Load16(d, at), Load16(d, at + 2), Load16(d, at + 4), Load16(d, at + 6)>>

----------------------------------------------------------------------------
(* printELFHeader *)

isELF(d) ==
    IF Len(d) < 4 THEN FALSE
    ELSE d[1] = ELFMAG[1] /\ d[2] = ELFMAG[2] /\ d[3] = ELFMAG[3] /\ d[4] = ELFMAG[4]

Header32(d) ==
    [class   |-> "ELF32",
     data    |-> IF d[EI_DATA + 1] = 1 THEN "little endian" ELSE "big endian",
     version |-> d[EI_VERSION + 1],
     osabi   |-> d[EI_OSABI + 1],
     type    |-> Load16(d, OffType),
     machine |-> Load16(d, OffMachine),
     entry   |-> Load32(d, OffEntry)]

Header64(d) ==
    [class   |-> "ELF64",
     data    |-> IF d[EI_DATA + 1] = 1 THEN "Little Endian" ELSE "Big Endian",
     version |-> d[EI_VERSION + 1],
     osabi   |-> d[EI_OSABI + 1],
     type    |-> Load16(d, OffType),
     machine |-> Load16(d, OffMachine),
     entry   |-> Load64(d, OffEntry)]

\* what printELFHeader does when data[EI_CLASS] has the value elfClass:
\* the header it prints and the diagnostic it writes
HeaderStage(d, elfClass) ==
    IF elfClass = 1
    THEN IF Len(d) < SizeofEhdr32 THEN [hdr |-> <<>>, err |-> {"TooShort"}]
         ELSE [hdr |-> <<Header32(d)>>, err |-> {}]
    ELSE IF elfClass = 2
    THEN IF Len(d) < SizeofEhdr64 THEN [hdr |-> <<>>, err |-> {"TooShort"}]
         ELSE [hdr |-> <<Header64(d)>>, err |-> {}]
    ELSE [hdr |-> <<>>, err |-> {"UnknownClass"}]

KeepDecoder == UNCHANGED <<code, variant, baseAddress, i, out, pending, derr, dpc, run, first>>

\* printELFHeader returns void: main goes on to findTextSection whatever it printed
PrintELFHeaderNotELF ==
    /\ ppc = "header"
    /\ ~isELF(data)
    /\ errs' = errs \cup {"NotRecognizedFormat"}
    /\ ppc' = "locate"
    /\ UNCHANGED <<data, hdr, found, textSectionOffset, textSize, sliced, exitCode, oob, crashed>>
    /\ KeepDecoder

PrintELFHeader ==
    /\ ppc = "header"
    /\ isELF(data)
    /\ IF EI_CLASS < Len(data)
       THEN /\ hdr' = HeaderStage(data, data[EI_CLASS + 1]).hdr
            /\ errs' = errs \cup HeaderStage(data, data[EI_CLASS + 1]).err
            /\ ppc' = "locate"
            /\ UNCHANGED <<oob, crashed>>
       ELSE \* data[EI_CLASS] is one past the end of a 4-byte file
            /\ oob' = TRUE
            /\ \/ \E wild \in {0, 1, 2} :
                     /\ hdr' = HeaderStage(data, wild).hdr
                     /\ errs' = errs \cup HeaderStage(data, wild).err
                     /\ ppc' = "locate"
                     /\ UNCHANGED crashed
               \/ /\ crashed' = TRUE
                  /\ ppc' = "undefined"
                  /\ UNCHANGED <<hdr, errs>>
    /\ UNCHANGED <<data, found, textSectionOffset, textSize, sliced, exitCode>>
    /\ KeepDecoder

----------------------------------------------------------------------------
(* findTextSection *)

DotText == <<46, 116, 101, 120, 116, 0>>

RECURSIVE StrCmp(_, _, _)
\* std::strcmp(sectionName, ".text") byte by byte from the k-th character:
\* "eq", "ne", or "oob" when a byte outside the file would be read first
StrCmp(d, at, k) ==
    LET pos == Add64(at, U64(k))
    IN  IF ~Readable(d, pos, 1) THEN "oob"
        ELSE IF d[Val64(pos) + 1] # DotText[k + 1] THEN "ne"
        ELSE IF DotText[k + 1] = 0 THEN "eq"
        ELSE StrCmp(d, at, k + 1)

\* address of sectionHeaders[k]
ShdrAt(shoff, k) == Add64(shoff, U64(SizeofShdr * k))

RECURSIVE ScanSectionsLast(_, _, _, _, _)
\* the loop without its return: a later match overwrites an earlier one
ScanSectionsLast(d, shoff, count, strtab, k) ==
    IF k >= count THEN [kind |-> "SectionNotFound"]
    ELSE IF ~Readable(d, Add64(ShdrAt(shoff, k), U64(OffShName)), 4)
    THEN [kind |-> "undefined"]
    ELSE LET sh   == Val64(ShdrAt(shoff, k))
             name == Add64(strtab, Load32(d, sh + OffShName))
             cmp  == StrCmp(d, name, 0)
             rest == ScanSectionsLast(d, shoff, count, strtab, k + 1)
         IN  IF cmp = "oob" THEN [kind |-> "undefined"]
             ELSE IF cmp = "eq" /\ rest.kind = "SectionNotFound"
             THEN IF ~Readable(d, Add64(ShdrAt(shoff, k), U64(OffShOffset)), 16)
                  THEN [kind |-> "undefined"]
                  ELSE [kind |-> "found", index |-> k,
                        offset |-> Load64(d, sh + OffShOffset),
                        size |-> Load64(d, sh + OffShSize)]
             ELSE rest

RECURSIVE ScanSections(_, _, _, _, _)
\* the for loop over the section headers, from index k
ScanSections(d, shoff, count, strtab, k) ==
    IF k >= count THEN [kind |-> "SectionNotFound"]
    ELSE IF ~Readable(d, Add64(ShdrAt(shoff, k), U64(OffShName)), 4)
    THEN [kind |-> "undefined"]
    ELSE LET sh   == Val64(ShdrAt(shoff, k))
             name == Add64(strtab, Load32(d, sh + OffShName))
             cmp  == StrCmp(d, name, 0)
         IN  IF cmp = "oob" THEN [kind |-> "undefined"]
             ELSE IF cmp = "eq"
             THEN IF ~Readable(d, Add64(ShdrAt(shoff, k), U64(OffShOffset)), 16)
                  THEN [kind |-> "undefined"]
                  ELSE [kind |-> "found", index |-> k,
                        offset |-> Load64(d, sh + OffShOffset),
                        size |-> Load64(d, sh + OffShSize)]
             ELSE ScanSections(d, shoff, count, strtab, k + 1)

\* findTextSection with the first test written with && instead of ||
LocateBothZero(d) ==
    IF ~Readable(d, U64(OffShoff), 8) THEN [kind |-> "undefined"]
    ELSE IF ~Readable(d, U64(OffShentsize), 6) THEN [kind |-> "undefined"]
    ELSE IF Load64(d, OffShoff) = Zero64 /\ Load16(d, OffShnum) = 0
    THEN [kind |-> "NoSectionTable"]
    ELSE LET shoff  == Load64(d, OffShoff)
             count  == Load16(d, OffShnum)
             strndx == Load16(d, OffShstrndx)
         IN  IF strndx >= count THEN [kind |-> "InvalidStringTableIndex"]
             ELSE IF ~Readable(d, ShdrAt(shoff, strndx), SizeofShdr)
             THEN [kind |-> "undefined"]
             ELSE ScanSections(d, shoff, count,
                               Load64(d, Val64(ShdrAt(shoff, strndx)) + OffShOffset), 0)

\* findTextSection(fileData, elfHeader, ...) with elfHeader = fileData.data()
Locate(d) ==
    IF ~Readable(d, U64(OffShoff), 8) THEN [kind |-> "undefined"]
    ELSE IF Load64(d, OffShoff) = Zero64 THEN [kind |-> "NoSectionTable"]
    ELSE IF ~Readable(d, U64(OffShnum), 2) THEN [kind |-> "undefined"]
    ELSE IF Load16(d, OffShnum) = 0 THEN [kind |-> "NoSectionTable"]
    ELSE IF ~Readable(d, U64(OffShentsize), 6) THEN [kind |-> "undefined"]
    ELSE LET shoff  == Load64(d, OffShoff)
             count  == Load16(d, OffShnum)
             strndx == Load16(d, OffShstrndx)
         IN  IF strndx >= count THEN [kind |-> "InvalidStringTableIndex"]
             ELSE IF ~Readable(d, ShdrAt(shoff, strndx), SizeofShdr)
             THEN [kind |-> "undefined"]
             ELSE ScanSections(d, shoff, count,
                               Load64(d, Val64(ShdrAt(shoff, strndx)) + OffShOffset), 0)

FindTextSectionFound ==
    /\ ppc = "locate"
    /\ Locate(data).kind = "found"
    /\ textSectionOffset' = Locate(data).offset
    /\ textSize' = Locate(data).size
    /\ found' = TRUE
    /\ ppc' = "check"
    /\ UNCHANGED <<data, hdr, errs, sliced, exitCode, oob, crashed>>
    /\ KeepDecoder

\* the three "return false" paths; main then returns 1
FindTextSectionFails ==
    /\ ppc = "locate"
    /\ Locate(data).kind \in {"NoSectionTable", "InvalidStringTableIndex", "SectionNotFound"}
    /\ errs' = errs \cup {Locate(data).kind}
    /\ found' = FALSE
    /\ ppc' = "exit"
    /\ exitCode' = 1
    /\ UNCHANGED <<data, hdr, textSectionOffset, textSize, sliced, oob, crashed>>
    /\ KeepDecoder

\* a header field, a section header or a name lies outside the file:
\* the read is undefined behaviour and nothing is known of what follows
FindTextSectionUndefined ==
    /\ ppc = "locate"
    /\ Locate(data).kind = "undefined"
    /\ oob' = TRUE
    /\ ppc' = "undefined"
    /\ UNCHANGED <<data, hdr, errs, found, textSectionOffset, textSize, sliced, exitCode, crashed>>
    /\ KeepDecoder

----------------------------------------------------------------------------
(* main: the bounds check, the slice, the decode, the exit code *)

\* textSectionOffset + textSize > code.size(), in uint64_t
ExceedsFile(off, size, d) == Gt64(Add64(off, size), Len(d))

SectionExceedsFile ==
    /\ ppc = "check"
    /\ ExceedsFile(textSectionOffset, textSize, data)
    /\ errs' = errs \cup {"RegionExceedsImage"}
    /\ ppc' = "exit"
    /\ exitCode' = 1
    /\ UNCHANGED <<data, hdr, found, textSectionOffset, textSize, sliced, oob, crashed>>
    /\ KeepDecoder

\* std::vector<uint8_t> textSection(code.begin() + off, code.begin() + off + size)
\* followed by the call disassemble(textSection, 0)
ExtractText ==
    /\ ppc = "check"
    /\ ~ExceedsFile(textSectionOffset, textSize, data)
    /\ sliced' = TRUE
    /\ IF /\ ~Carry64(textSectionOffset, textSize)
          /\ Readable(data, textSectionOffset, Val64(textSize))
       THEN /\ code' = SubSeq(data, Val64(textSectionOffset) + 1,
                              Val64(textSectionOffset) + Val64(textSize))
            /\ ppc' = "decode"
            /\ dpc' = "loop"
            /\ UNCHANGED oob
       ELSE \* the sum wrapped: the range starts outside the file
            /\ oob' = TRUE
            /\ ppc' = "undefined"
            /\ UNCHANGED <<code, dpc>>
    /\ i' = 0 /\ out' = <<>> /\ pending' = ""
    /\ UNCHANGED <<data, hdr, errs, found, textSectionOffset, textSize, exitCode, crashed>>
    /\ UNCHANGED <<variant, baseAddress, derr, run, first>>

\* disassemble returns void; main returns 0 after it
MainReturn ==
    /\ ppc = "decode"
    /\ dpc = "returned" /\ ~crashed
    /\ ppc' = "exit"
    /\ exitCode' = 0
    /\ UNCHANGED <<data, hdr, errs, found, textSectionOffset, textSize, sliced, oob, crashed>>
    /\ KeepDecoder

NoOutcome == [out |-> <<>>, pending |-> "", derr |-> "none", crashed |-> FALSE]

\* the stand-alone decoder: no file, no main
PipeIdle ==
    /\ data = <<>> /\ ppc = "none" /\ hdr = <<>> /\ errs = {}
    /\ found = FALSE /\ textSectionOffset = Zero64 /\ textSize = Zero64
    /\ sliced = FALSE /\ exitCode = "none"

DecInit ==
    /\ code \in SeqsUpTo(CodeBytes, MaxLen)
    /\ variant \in {"r64", "r32"}
    /\ baseAddress \in (IF variant = "r64" THEN BaseAddresses ELSE {0})
    /\ i = 0 /\ out = <<>> /\ pending = "" /\ derr = "none"
    /\ oob = FALSE /\ crashed = FALSE
    /\ dpc = "loop" /\ run = 1
    /\ first = NoOutcome
    /\ PipeIdle

DecNext ==
    \/ DisassembleTruncated
    \/ DisassembleMov
    \/ DisassembleRet
    \/ DisassembleNop
    \/ DisassembleDb
    \/ DisassembleEnd

\* one call of disassemble on every byte vector up to MaxLen
SpecDecode == DecInit /\ [][DecNext]_vars

\* the same, called a second time on the same vector
SpecRedecode == DecInit /\ [][DecNext \/ DisassembleAgain]_vars

----------------------------------------------------------------------------
(* The files the pipeline is run on *)

\* number of section headers physically present in a file
MaxSec == 3

RECURSIVE Zeros(_)
Zeros(n) == IF n = 0 THEN <<>> ELSE <<0>> \o Zeros(n - 1)

Bytes16(n) == <<n % 256, n \div 256>>
Bytes32(n) == Bytes16(n % Limb) \o Bytes16(n \div Limb)
Bytes64(v) == Bytes16(v[1]) \o Bytes16(v[2]) \o Bytes16(v[3]) \o Bytes16(v[4])

\* the name pool: "", ".textx", ".text", ".tex"; "text" is the tail of ".text"
Pool == <<0>> \o <<46, 116, 101, 120, 116, 120, 0>> \o DotText \o <<46, 116, 101, 120, 0>>
\* where each name starts in the pool
NameAt == [empty |-> 0, textx |-> 1, text |-> 8, suffix |-> 9, tex |-> 14]

\* the code bytes: the two-instruction example, a mov with 3 operand bytes
\* at the end, a mov with 2 operand bytes at the end
Texts == { <<184, 1, 0, 0, 0, 144>>, <<144, 195, 184, 1, 2, 3>>, <<144, 1, 144, 191, 1, 2>> }
TextLen == Len(CHOOSE t \in Texts : TRUE)

TextOff == SizeofEhdr64 + MaxSec * SizeofShdr
PoolOff == TextOff + TextLen
FileLen == PoolOff + Len(Pool)

\* the section headers a file is assembled from
Section(kind) ==
    CASE kind = "strtab" -> [name |-> NameAt.empty, offset |-> U64(PoolOff), size |-> U64(Len(Pool))]
      [] kind = "textA"  -> [name |-> NameAt.text, offset |-> U64(TextOff), size |-> U64(TextLen)]
      [] kind = "textB"  -> [name |-> NameAt.text, offset |-> U64(TextOff + 1), size |-> U64(TextLen - 1)]
      [] kind = "textx"  -> [name |-> NameAt.textx, offset |-> U64(TextOff), size |-> U64(1)]
      [] kind = "tex"    -> [name |-> NameAt.tex, offset |-> U64(TextOff), size |-> U64(2)]
      [] kind = "suffix" -> [name |-> NameAt.suffix, offset |-> U64(TextOff), size |-> U64(3)]
      [] kind = "wrap"   -> [name |-> NameAt.text, offset |-> Max64, size |-> U64(2)]
      [] kind = "big"    -> [name |-> NameAt.text, offset |-> U64(TextOff), size |-> U64(FileLen)]
      [] kind = "end"    -> [name |-> NameAt.text, offset |-> U64(FileLen), size |-> U64(0)]
      [] kind = "noname" -> [name |-> FileLen, offset |-> U64(TextOff), size |-> U64(1)]

Kinds == {"strtab", "textA", "textB", "textx", "wrap"}
OddKinds == {"tex", "suffix", "big", "end", "noname"}

ShdrBytes(sec) ==
    Bytes32(sec.name) \o Zeros(20) \o Bytes64(sec.offset) \o Bytes64(sec.size) \o Zeros(24)

RECURSIVE TableBytes(_, _)
TableBytes(kinds, k) ==
    IF k > Len(kinds) THEN <<>> ELSE ShdrBytes(Section(kinds[k])) \o TableBytes(kinds, k + 1)

EhdrBytes(magic0, class, shoff, shnum, shstrndx) ==
    <<magic0, 69, 76, 70, class, 1, 1, 0>> \o Zeros(8)
    \o Bytes16(2) \o Bytes16(62) \o Bytes32(1)
    \o Bytes64(U64(TextOff)) \o Zeros(8) \o Bytes64(shoff)
    \o Zeros(4) \o Bytes16(SizeofEhdr64) \o Zeros(4) \o Bytes16(SizeofShdr)
    \o Bytes16(shnum) \o Bytes16(shstrndx)

File(magic0, class, shoff, shnum, shstrndx, kinds, text) ==
    EhdrBytes(magic0, class, shoff, shnum, shstrndx) \o TableBytes(kinds, 1) \o text \o Pool

\* files whose header varies, over one fixed table with an odd entry in it
HeaderFiles ==
    { SubSeq(File(m, c, so, n, x, <<"strtab", k, "textA">> \o [j \in 1..(MaxSec - 3) |-> "textx"], t), 1, cut) :
        m \in {127, 0}, c \in {1, 2, 3},
        so \in {Zero64, U64(SizeofEhdr64), U64(FileLen)},
        n \in {0, 1, MaxSec}, x \in {0, 1, MaxSec},
        k \in OddKinds, t \in Texts, cut \in {3, 4, 20, 60, FileLen - 1, FileLen} }

\* well-formed ELF64 files whose section table varies
SectionFiles ==
    { File(127, 2, U64(SizeofEhdr64), n, x, kinds, t) :
        n \in 1..MaxSec, x \in 0..(MaxSec - 1),
        kinds \in [1..MaxSec -> Kinds], t \in Texts }

Init ==
    /\ data \in HeaderFiles \cup SectionFiles
    /\ ppc = "header" /\ hdr = <<>> /\ errs = {}
    /\ found = FALSE /\ textSectionOffset = Zero64 /\ textSize = Zero64
    /\ sliced = FALSE /\ exitCode = "none"
    /\ code = <<>> /\ variant = "r64" /\ baseAddress = 0
    /\ i = 0 /\ out = <<>> /\ pending = "" /\ derr = "none"
    /\ oob = FALSE /\ crashed = FALSE
    /\ dpc = "idle" /\ run = 1
    /\ first = NoOutcome

Next ==
    \/ PrintELFHeaderNotELF
    \/ PrintELFHeader
    \/ FindTextSectionFound
    \/ FindTextSectionFails
    \/ FindTextSectionUndefined
    \/ SectionExceedsFile
    \/ ExtractText
    \/ DisassembleTruncated
    \/ DisassembleMov
    \/ DisassembleNop
    \/ DisassembleDb
    \/ DisassembleEnd
    \/ MainReturn

\* main of src/main.cpp on every file of HeaderFiles and SectionFiles
Spec == Init /\ [][Next]_vars

----------------------------------------------------------------------------
(* Properties of the decoder, checked under SpecDecode and SpecRedecode *)

\* bytes left after the opcode byte at the cursor
Remaining == Len(code) - i - 1

AtMov == dpc = "loop" /\ i < Len(code) /\ IsMov(code[i + 1])

\* C1: at a cursor position whose byte is in [0xB8, 0xBF], fewer than 4
\* bytes after the opcode make the decode fail with TruncatedOperand, stop,
\* emit no record and read no byte at an index >= the length; 4 or more
\* bytes after the opcode never make it fail.
C1_TruncatedOperandContract ==
    [][ /\ (AtMov /\ Remaining < 4) =>
              (derr' = "TruncatedOperand" /\ dpc' = "returned" /\ out' = out /\ ~oob')
        /\ (AtMov /\ Remaining >= 4) => derr' = "none" ]_vars

\* the expected text of a byte as two hexadecimal digits
TwoDigits(b) == HexDigit(b \div 16) \o HexDigit(b % 16)

RECURSIVE StripZeros(_)
StripZeros(t) == IF Len(t) > 1 /\ SubSeq(t, 1, 1) = "0" THEN StripZeros(SubSeq(t, 2, Len(t))) ELSE t

\* the expected text of the little-endian 32-bit value of four bytes
ImmText(b0, b1, b2, b3) ==
    StripZeros(TwoDigits(b3) \o TwoDigits(b2) \o TwoDigits(b1) \o TwoDigits(b0))

ExpectedReg(v, b) ==
    IF v = "r64"
    THEN CASE b = 184 -> "rax" [] b = 185 -> "rcx" [] b = 186 -> "rdx" [] b = 187 -> "rbx"
           [] b = 188 -> "rsp" [] b = 189 -> "rbp" [] b = 190 -> "rsi" [] b = 191 -> "rdi"
    ELSE CASE b = 184 -> "eax" [] b = 185 -> "ecx" [] b = 186 -> "edx" [] b = 187 -> "ebx"
           [] b = 188 -> "esp" [] b = 189 -> "ebp" [] b = 190 -> "esi" [] b = 191 -> "edi"

\* one record is appended, with this mnemonic and operand, and the cursor moves by w
Emits(mn, op, w) ==
    /\ Len(out') = Len(out) + 1
    /\ SubSeq(out', 1, Len(out)) = out
    /\ out'[Len(out')].mnemonic = mn
    /\ out'[Len(out')].operand = op
    /\ out'[Len(out')].byteWidth = w
    /\ i' = i + w

RECURSIVE SumWidths(_, _)
SumWidths(recs, n) == IF n = 0 THEN 0 ELSE SumWidths(recs, n - 1) + recs[n].byteWidth

\* C9: the records tile the input: the first address is baseAddress, each
\* later address is the previous address plus the previous byteWidth (1 or
\* 5), the cursor is the sum of the widths, and a decode that completes
\* without TruncatedOperand ends with the widths summing to bytes.length and
\* the cursor equal to bytes.length, never more.
C9_RecordsTileInput ==
    /\ \A k \in 1..Len(out) :
          /\ out[k].byteWidth \in {1, 5}
          /\ out[k].address = baseAddress + SumWidths(out, k - 1)
    /\ i = SumWidths(out, Len(out))
    /\ (dpc = "returned" /\ derr = "none" /\ ~crashed) =>
          (SumWidths(out, Len(out)) = Len(code) /\ i = Len(code))

\* C10: the cursor starts at 0 and grows by 1 or 5 with every record, the
\* loop ends when the cursor reaches bytes.length or at the first
\* TruncatedOperand, and at most bytes.length records are emitted.
C10_CursorReachesLength ==
    /\ [](out = <<>> => i = 0)
    /\ [][out' # out => (i' = i + 1 \/ i' = i + 5)]_vars
    /\ []((dpc = "returned" /\ ~crashed) => (i = Len(code) \/ derr = "TruncatedOperand"))
    /\ [](Len(out) <= Len(code))

----------------------------------------------------------------------------
(* Properties of the pipeline, checked under Spec *)

HeaderErrors == {"NotRecognizedFormat", "TooShort", "UnknownClass"}
LocateErrors == {"NoSectionTable", "InvalidStringTableIndex", "SectionNotFound"}

\* findTextSection has returned to main
LocatorReturned == ppc \in {"check", "decode", "exit"} \/ (ppc = "undefined" /\ sliced)

\* the header fields findTextSection works from
ShOff == Load64(data, OffShoff)
ShNum == Load16(data, OffShnum)
ShStrNdx == Load16(data, OffShstrndx)

EntryInFile(k) == Readable(data, ShdrAt(ShOff, k), SizeofShdr)
EntryOffset(k) == Load64(data, Val64(ShdrAt(ShOff, k)) + OffShOffset)
EntrySize(k) == Load64(data, Val64(ShdrAt(ShOff, k)) + OffShSize)

\* the zero-terminated name of entry k in the name pool is exactly ".text"
NameIsText(k) ==
    /\ EntryInFile(k) /\ EntryInFile(ShStrNdx)
    /\ LET at == Add64(EntryOffset(ShStrNdx), Load32(data, Val64(ShdrAt(ShOff, k)) + OffShName))
       IN  /\ Readable(data, at, Len(DotText))
           /\ SubSeq(data, Val64(at) + 1, Val64(at) + Len(DotText)) = DotText

\* offset + size > file length, in unbounded arithmetic
MathExceeds(off, size, n) == Carry64(off, size) \/ Gt64(Add64(off, size), n)

\* C2: a located section whose offset + size exceeds the image length (the
\* sum taken mathematically, so also when the 64-bit sum wraps) makes the
\* pipeline fail with RegionExceedsImage before a slice is taken or a byte
\* of the region is read.
C2_RegionCheckedBeforeSlice ==
    (found /\ ppc # "check" /\ MathExceeds(textSectionOffset, textSize, Len(data))) =>
        (~sliced /\ ~oob /\ "RegionExceedsImage" \in errs /\ exitCode = 1)

HeaderFailed ==
    \/ errs \cap HeaderErrors # {}
    \/ (hdr # <<>> /\ hdr[1].class = "ELF32")

\* C3: when the header stage fails (NotRecognizedFormat, TooShort,
\* UnknownClass) or the class is 32-bit, parsing stops: neither the section
\* lookup nor the decoding is attempted on that image.
C3_HeaderFailureStops ==
    HeaderFailed =>
        (/\ ppc \in {"header", "locate", "exit", "undefined"}
         /\ ~found /\ ~sliced /\ dpc = "idle"
         /\ errs \cap LocateErrors = {})

\* C4: the run ends with exit code 0 exactly when none of the errors
\* occurred; every error, a TruncatedOperand inside decode included, ends
\* the run with a nonzero exit status.
C4_ExitCodeReflectsErrors ==
    ppc = "exit" => (exitCode = 0 <=> errs = {})

\* C5: findSection returns the offset and size of the lowest-index entry
\* whose zero-terminated name equals the requested name; with several such
\* entries the lower index wins.
C5_FirstMatchWins ==
    found =>
        \E k \in 0..(ShNum - 1) :
            /\ NameIsText(k)
            /\ \A j \in 0..(k - 1) : ~NameIsText(j)
            /\ textSectionOffset = EntryOffset(k)
            /\ textSize = EntrySize(k)

\* two entries are named ".text", with different ranges, and the lower one was returned
C5_Witness ==
    /\ found
    /\ \E j \in 0..(ShNum - 1) : \E k \in (j + 1)..(ShNum - 1) :
          /\ NameIsText(j) /\ NameIsText(k)
          /\ \A h \in 0..(j - 1) : ~NameIsText(h)
          /\ EntryOffset(j) # EntryOffset(k) /\ EntrySize(j) # EntrySize(k)
          /\ textSectionOffset = EntryOffset(j) /\ textSize = EntrySize(j)

\* findTextSection returned false with exactly this diagnostic and left the outputs alone
LocateFailedWith(e) ==
    /\ ~found
    /\ errs \cap LocateErrors = {e}
    /\ textSectionOffset = Zero64 /\ textSize = Zero64
    /\ ppc = "exit" /\ exitCode = 1

NoTable == ShOff = Zero64 \/ ShNum = 0
BadStringIndex == ~NoTable /\ ShStrNdx >= ShNum
NoneMatches == ~NoTable /\ ~BadStringIndex /\ \A k \in 0..(ShNum - 1) : ~NameIsText(k)

\* C6: findSection fails with NoSectionTable when the table offset or the
\* count is 0, with InvalidStringTableIndex when the string-table index is
\* >= the count, with SectionNotFound when no name matches; a failure
\* produces no offset/length, and it succeeds only when some entry matches.
C6_LocateFailures ==
    LocatorReturned =>
        /\ NoTable => LocateFailedWith("NoSectionTable")
        /\ BadStringIndex => LocateFailedWith("InvalidStringTableIndex")
        /\ NoneMatches => LocateFailedWith("SectionNotFound")
        /\ found => (~NoTable /\ ~BadStringIndex /\ \E k \in 0..(ShNum - 1) : NameIsText(k))
        /\ ~found => (textSectionOffset = Zero64 /\ textSize = Zero64 /\ ~sliced)

\* a table of three named entries, none of them ".text", was scanned to its end
C6_Witness ==
    /\ LocatorReturned /\ isELF(data) /\ Len(data) = FileLen
    /\ ShNum = MaxSec /\ ShStrNdx < ShNum
    /\ NoneMatches
    /\ "SectionNotFound" \in errs /\ exitCode = 1

\* the file is shorter than the header its class byte announces
ShortForClass(c, size) ==
    /\ isELF(data) /\ Len(data) > EI_CLASS
    /\ data[EI_CLASS + 1] = c /\ Len(data) < size

\* C11: the header stage reads no byte at an index >= the image length: an
\* image shorter than the header size of its class byte (52 bytes for class
\* 1, 64 for class 2) fails with TooShort, and an image of exactly 4 bytes
\* with the valid magic is rejected without the class byte at offset 4 or
\* the endianness byte at offset 5 being read.
C11_HeaderStageInBounds ==
    [][ ppc = "header" =>
          /\ ~oob'
          /\ ShortForClass(1, SizeofEhdr32) => ("TooShort" \in errs' /\ hdr' = <<>>)
          /\ ShortForClass(2, SizeofEhdr64) => ("TooShort" \in errs' /\ hdr' = <<>>)
          /\ (isELF(data) /\ Len(data) = Len(ELFMAG)) =>
                (hdr' = <<>> /\ errs' \cap HeaderErrors # {})
      ]_vars

\* the section table, e_shnum entries from e_shoff, runs past the end of the file
TableExceeds == MathExceeds(ShOff, U64(SizeofShdr * ShNum), Len(data))

\* the section the string-table index names runs past the end of the file
StrTabExceeds ==
    /\ EntryInFile(ShStrNdx)
    /\ MathExceeds(EntryOffset(ShStrNdx), EntrySize(ShStrNdx), Len(data))

NameOffset(k) == Load32(data, Val64(ShdrAt(ShOff, k)) + OffShName)

\* the name of entry k starts at or after the end of the string-table
\* section, or no zero byte follows it inside that section
NameOutside(k) ==
    LET off  == EntryOffset(ShStrNdx)
        size == EntrySize(ShStrNdx)
    IN  /\ Small64(size)
        /\ \/ Gt64(NameOffset(k), Val64(size) - 1)
           \/ /\ Readable(data, off, Val64(size))
              /\ \A p \in Val64(NameOffset(k))..(Val64(size) - 1) :
                    data[Val64(off) + p + 1] # 0

\* the loop of findTextSection gets to entry k: no earlier entry is ".text"
Visited(k) ==
    /\ \A j \in 0..k : EntryInFile(j)
    /\ \A j \in 0..(k - 1) : ~NameIsText(j)

OutsideImageOrNames ==
    /\ Len(data) >= SizeofEhdr64
    /\ \/ TableExceeds
       \/ StrTabExceeds
       \/ /\ EntryInFile(ShStrNdx)
          /\ \E k \in 0..(ShNum - 1) : Visited(k) /\ NameOutside(k)

\* printELFHeader printed a 64-bit header and reported nothing
HeaderPassed == hdr # <<>> /\ ~HeaderFailed

\* C12: the section lookup reads no byte outside the image or outside the
\* string-table section: a section table running past the image end, a
\* string-table entry whose offset + size exceeds the image length, or an
\* entry whose name offset is at or beyond the string-table section's size
\* (or whose name has no zero terminator inside that section) gives an error
\* outcome, not a read.
C12_LocatorInBounds ==
    [][ (ppc = "locate" /\ HeaderPassed) =>
          /\ ~oob'
          /\ OutsideImageOrNames => (~found' /\ exitCode' = 1)
      ]_vars

====
